---- MODULE Spec2Model ----
(***************************************************************************)
(* Model of the terminal calculator (Calculator/code/Calculator.c):        *)
(* tokenize, to_postfix (shunting yard), eval_postfix, evaluate_expression *)
(* and the read-evaluate loop of main.                                     *)
(*                                                                         *)
(* Values.  A C double is modelled as an exact rational [k, n, d] in       *)
(* lowest terms while numerator and denominator stay within Limit.  A      *)
(* double the model cannot give exactly (an irrational function value, a   *)
(* value beyond Limit) is carried as the term that computed it, [k, f, a]  *)
(* or [k, op, x, y]; two equal terms stand for equal doubles.              *)
(***************************************************************************)
EXTENDS Integers, Sequences, FiniteSets, TLC

\* ------------------------------------------------------------------ bounds

\* Largest numerator / denominator kept as an exact rational.
Limit == 10000
\* Largest exponent pow() multiplies out exactly.
MaxExp == 16

\* ------------------------------------------------------- program constants

MAX_TOKENS == 100
MAX_STACK == 100
\* char func[10]
FUNC_LEN == 10
\* char input[256]: fgets stores at most 255 characters
INPUT_LEN == 256

\* ------------------------------------------------------------------ values

\* F(x) with x evaluated once
Bind(x, F(_)) == CHOOSE r \in {F(v) : v \in {x}} : TRUE

Abs(i) == IF i < 0 THEN -i ELSE i

RECURSIVE Gcd(_, _)
Gcd(a, b) == IF b = 0 THEN a ELSE Gcd(b, a % b)

IsQ(v) == v.k = "q"

\* the rational n/d (d # 0) in lowest terms, or the term t when out of range
Rat(n, d, t) ==
    Bind(Gcd(Abs(n), Abs(d)), LAMBDA g :
         IF Abs(n) \div g > Limit \/ Abs(d) \div g > Limit THEN t
         ELSE [k |-> "q", n |-> (IF d < 0 THEN -n ELSE n) \div g,
               d |-> Abs(d) \div g])

Q(n, d) == Rat(n, d, [k |-> "big", n |-> n, d |-> d])
Whole(n) == Q(n, 1)
Zero == [k |-> "q", n |-> 0, d |-> 1]
One == [k |-> "q", n |-> 1, d |-> 1]

OpTerm(op, a, b) == [k |-> "op", op |-> op, x |-> a, y |-> b]
FnTerm(f, a) == [k |-> "fn", f |-> f, a |-> a]

IsNeg(v) == IsQ(v) /\ v.n < 0
IsZero(v) == IsQ(v) /\ v.n = 0

\* (int)v : truncation toward zero
Trunc(v) == IF v.n < 0 THEN -((-v.n) \div v.d) ELSE v.n \div v.d

\* C's integer %, the sign of the result follows the dividend
CRem(a, b) == IF a < 0 THEN -((-a) % Abs(b)) ELSE a % Abs(b)

RECURSIVE PowNat(_, _)
PowNat(a, e) ==
    IF e = 0 THEN One
    ELSE Bind(PowNat(a, e - 1), LAMBDA r :
              IF IsQ(r) THEN Rat(r.n * a.n, r.d * a.d, OpTerm("*", r, a))
              ELSE r)

\* pow(a, b) of math.h
Pow(a, b) ==
    IF ~(IsQ(a) /\ IsQ(b)) THEN OpTerm("^", a, b)
    ELSE IF b.n = 0 THEN One
    ELSE IF a = One THEN One
    ELSE IF a.n = 0 THEN (IF b.n > 0 THEN Zero ELSE OpTerm("^", a, b))
    ELSE IF b.d # 1 \/ Abs(b.n) > MaxExp THEN OpTerm("^", a, b)
    ELSE Bind(PowNat(a, Abs(b.n)), LAMBDA r :
              IF ~IsQ(r) THEN OpTerm("^", a, b)
              ELSE IF b.n > 0 THEN r
              ELSE Rat(r.d, r.n, OpTerm("^", a, b)))

Add(a, b) ==
    IF IsQ(a) /\ IsQ(b)
    THEN Rat(a.n * b.d + b.n * a.d, a.d * b.d, OpTerm("+", a, b))
    ELSE OpTerm("+", a, b)

Sub(a, b) ==
    IF IsQ(a) /\ IsQ(b)
    THEN Rat(a.n * b.d - b.n * a.d, a.d * b.d, OpTerm("-", a, b))
    ELSE OpTerm("-", a, b)

Mul(a, b) ==
    IF IsQ(a) /\ IsQ(b)
    THEN Rat(a.n * b.n, a.d * b.d, OpTerm("*", a, b))
    ELSE OpTerm("*", a, b)

\* a / b for b # 0
Div(a, b) ==
    IF IsQ(a) /\ IsQ(b)
    THEN Rat(a.n * b.d, a.d * b.n, OpTerm("/", a, b))
    ELSE OpTerm("/", a, b)

\* (int)a % (int)b for (int)b # 0; the truncation of a term is not computed
Rem(a, b) ==
    IF IsQ(a) /\ IsQ(b)
    THEN Whole(CRem(Trunc(a), Trunc(b)))
    ELSE OpTerm("%", a, b)

RECURSIVE ISqrtFrom(_, _)
ISqrtFrom(n, r) == IF r * r >= n THEN r ELSE ISqrtFrom(n, r + 1)

IsSquare(n) == Bind(ISqrtFrom(n, 0), LAMBDA r : r * r = n)

\* sqrt(a) for a >= 0
Sqrt(a) ==
    IF IsQ(a) /\ IsSquare(a.n) /\ IsSquare(a.d)
    THEN Q(ISqrtFrom(a.n, 0), ISqrtFrom(a.d, 0))
    ELSE FnTerm("sqrt", a)

Fabs(a) == IF IsQ(a) THEN Q(Abs(a.n), a.d) ELSE FnTerm("abs", a)

\* the math.h functions the model gives exactly at one argument only
Log(a) == IF a = One THEN Zero ELSE FnTerm("ln", a)
Log10(a) == IF a = One THEN Zero ELSE FnTerm("log", a)
Exp(a) == IF IsZero(a) THEN One ELSE FnTerm("exp", a)
Sin(a) == IF IsZero(a) THEN Zero ELSE FnTerm("sin", a)
Cos(a) == IF IsZero(a) THEN One ELSE FnTerm("cos", a)
Tan(a) == IF IsZero(a) THEN Zero ELSE FnTerm("tan", a)

\* ----------------------------------------------------------------- helpers

\* mutant: the two lower levels exchanged
precedence_swapped(op) ==
    CASE op \in {"+", "-"} -> 2
      [] op \in {"*", "/", "%"} -> 1
      [] op = "^" -> 3
      [] OTHER -> 0

precedence(op) ==
    CASE op \in {"+", "-"} -> 1
      [] op \in {"*", "/", "%"} -> 2
      [] op = "^" -> 3
      [] OTHER -> 0

\* mutant: no operator is right-associative
is_right_associative_never(op) == FALSE

is_right_associative(op) == op = "^"

\* the value returned and the value of *error afterwards
Ret(v, e) == [v |-> v, error |-> e]

\* mutant: a zero divisor of / is not reported
apply_operator_nocheck(op, a, b, error) ==
    CASE op = "+" -> Ret(Add(a, b), error)
      [] op = "-" -> Ret(Sub(a, b), error)
      [] op = "*" -> Ret(Mul(a, b), error)
      [] op = "/" -> IF IsZero(b) THEN Ret(Zero, error) ELSE Ret(Div(a, b), error)
      [] op = "%" -> IF IsQ(b) /\ Trunc(b) = 0 THEN Ret(Zero, 1)
                     ELSE Ret(Rem(a, b), error)
      [] op = "^" -> Ret(Pow(a, b), error)
      [] OTHER -> Ret(Zero, 1)

apply_operator(op, a, b, error) ==
    CASE op = "+" -> Ret(Add(a, b), error)
      [] op = "-" -> Ret(Sub(a, b), error)
      [] op = "*" -> Ret(Mul(a, b), error)
      [] op = "/" -> IF IsZero(b) THEN Ret(Zero, 1) ELSE Ret(Div(a, b), error)
      [] op = "%" -> IF IsQ(b) /\ Trunc(b) = 0 THEN Ret(Zero, 1)
                     ELSE Ret(Rem(a, b), error)
      [] op = "^" -> Ret(Pow(a, b), error)
      [] OTHER -> Ret(Zero, 1)

RECURSIVE FactLoop(_, _, _)
FactLoop(i, n, res) ==
    IF i > n \/ ~IsQ(res) THEN res
    ELSE FactLoop(i + 1, n, Mul(res, Whole(i)))

\* factorial(n) for the int n
factorial(n) == IF n < 0 THEN Zero ELSE FactLoop(2, n, One)

degrees_to_radians(deg) == IF IsZero(deg) THEN Zero ELSE FnTerm("rad", deg)

apply_function(func, a, error) ==
    CASE func = "sqrt" -> IF IsNeg(a) THEN Ret(Zero, 1) ELSE Ret(Sqrt(a), error)
      [] func = "abs" -> Ret(Fabs(a), error)
      [] func = "ln" -> IF IsNeg(a) \/ IsZero(a) THEN Ret(Zero, 1)
                        ELSE Ret(Log(a), error)
      [] func = "log" -> IF IsNeg(a) \/ IsZero(a) THEN Ret(Zero, 1)
                         ELSE Ret(Log10(a), error)
      [] func = "exp" -> Ret(Exp(a), error)
      [] func = "fact" -> IF IsNeg(a) \/ (IsQ(a) /\ a.d # 1)
                             \/ (a.k = "lit" /\ a.whole = "no")
                          THEN Ret(Zero, 1)
                          ELSE IF IsQ(a) THEN Ret(factorial(a.n), error)
                          ELSE Ret(FnTerm("fact", a), error)
      [] func = "sin" -> Ret(Sin(degrees_to_radians(a)), error)
      [] func = "cos" -> Ret(Cos(degrees_to_radians(a)), error)
      [] func = "tan" -> Ret(Tan(degrees_to_radians(a)), error)
      [] OTHER -> Ret(Zero, 1)

\* -------------------------------------------------------------- characters

\* An expression is a sequence of characters, each a one-character string.
Digits == {"0", "1", "2", "3", "4", "5", "6", "7", "8", "9"}
Lower == {"a", "b", "c", "d", "e", "f", "g", "h", "i", "j", "k", "l", "m",
          "n", "o", "p", "q", "r", "s", "t", "u", "v", "w", "x", "y", "z"}
Upper == {"A", "B", "C", "D", "E", "F", "G", "H", "I", "J", "K", "L", "M",
          "N", "O", "P", "Q", "R", "S", "T", "U", "V", "W", "X", "Y", "Z"}
OpChars == {"+", "-", "*", "/", "%", "^"}

isspace(c) == c \in {" ", "\t"}
isdigit(c) == c \in Digits
isalpha(c) == c \in Lower \cup Upper

\* *p for the position p (1-based); the terminating NUL is ""
At(expr, p) == IF p >= 1 /\ p <= Len(expr) THEN expr[p] ELSE ""

DigitVal(c) == CHOOSE v \in 0..9 : <<"0", "1", "2", "3", "4", "5", "6", "7", "8", "9">>[v + 1] = c

\* the first position at or after p whose character is not in S
RECURSIVE RunEnd(_, _, _)
RunEnd(expr, p, S) ==
    IF At(expr, p) \in S THEN RunEnd(expr, p + 1, S) ELSE p

\* the number written by the digits expr[i] .. expr[j-1]
RECURSIVE NumVal(_, _, _)
NumVal(expr, i, j) ==
    IF j <= i THEN 0 ELSE 10 * NumVal(expr, i, j - 1) + DigitVal(expr[j - 1])

RECURSIVE Pow10(_)
Pow10(e) == IF e = 0 THEN 1 ELSE 10 * Pow10(e - 1)

\* the characters expr[i] .. expr[j-1] as one string
RECURSIVE Str(_, _, _)
Str(expr, i, j) == IF j <= i THEN "" ELSE Str(expr, i, j - 1) \o expr[j - 1]

\* sscanf(p, "%lf", &value) at a digit, or at a '.' before a digit: the
\* longest decimal floating constant at p (digits, one '.', digits, and an
\* exponent e[+-]digits when its digits are there) and its value.  A
\* constant of more than MaxDigits digits is kept as a term.
MaxDigits == 4

\* the decimal digits of INT_MAX, the largest value of the int of (int)a
IntMaxDigits == <<"2", "1", "4", "7", "4", "8", "3", "6", "4", "7">>

\* how the digits expr[i] .. expr[j-1] compare with the digits of INT_MAX,
\* given that both are ten digits: "under", "max" or "over"
RECURSIVE CmpIntMax(_, _, _)
CmpIntMax(expr, i, k) ==
    IF k > Len(IntMaxDigits) THEN "max"
    ELSE IF DigitVal(expr[i]) < DigitVal(IntMaxDigits[k]) THEN "under"
    ELSE IF DigitVal(expr[i]) > DigitVal(IntMaxDigits[k]) THEN "over"
    ELSE CmpIntMax(expr, i + 1, k + 1)

\* whether the whole number written by the digits expr[p] .. expr[ie-1] is
\* below INT_MAX ("under"), INT_MAX itself ("max") or beyond it ("over")
IntFits(expr, p, ie) ==
    Bind(RunEnd(expr, p, {"0"}), LAMBDA z :
         IF ie - z < Len(IntMaxDigits) THEN "under"
         ELSE IF ie - z > Len(IntMaxDigits) THEN "over"
         ELSE CmpIntMax(expr, z, 1))

\* a constant kept as a term: its text, whether its value is a whole number
\* and how its integer part compares with INT_MAX ("unknown" where an
\* exponent makes the digits alone not tell)
Literal(expr, p, ie, fs, fe, hasExp, xe) ==
    [k |-> "lit", s |-> Str(expr, p, IF hasExp THEN xe ELSE fe),
     whole |-> IF hasExp THEN "unknown"
               ELSE IF RunEnd(expr, fs, {"0"}) >= fe THEN "yes" ELSE "no",
     fits |-> IF hasExp THEN "unknown" ELSE IntFits(expr, p, ie)]

ScanValue(expr, p, ie, fs, fe, ss, xs, xe) ==
    LET hasExp == ss > fe /\ xe > xs
        man == NumVal(expr, p, ie) * Pow10(fe - fs) + NumVal(expr, fs, fe)
        ex == IF hasExp THEN NumVal(expr, xs, xe) ELSE 0
    IN  IF (ie - p) + (fe - fs) > MaxDigits \/ (xe - xs) > 1 \/ ex > MaxDigits
        THEN Literal(expr, p, ie, fs, fe, hasExp, xe)
        ELSE IF hasExp /\ At(expr, ss) = "-"
        THEN Q(man, Pow10(fe - fs) * Pow10(ex))
        ELSE Q(man * Pow10(ex), Pow10(fe - fs))

ScanDouble(expr, p) ==
    Bind(RunEnd(expr, p, Digits), LAMBDA ie :
    Bind(IF At(expr, ie) = "." THEN ie + 1 ELSE ie, LAMBDA fs :
    Bind(RunEnd(expr, fs, Digits), LAMBDA fe :
    Bind(IF At(expr, fe) \in {"e", "E"} THEN fe + 1 ELSE fe, LAMBDA ss :
    Bind(IF ss > fe /\ At(expr, ss) \in {"+", "-"} THEN ss + 1 ELSE ss, LAMBDA xs :
    Bind(IF ss > fe THEN RunEnd(expr, xs, Digits) ELSE xs, LAMBDA xe :
         ScanValue(expr, p, ie, fs, fe, ss, xs, xe)))))))

\* ------------------------------------------------------------------ tokens

Number(v) == [type |-> "NUMBER", value |-> v]
Operator(c) == [type |-> "OPERATOR", op |-> c]
Function(name) == [type |-> "FUNCTION", func |-> name]
ParenLeft == [type |-> "PAREN_LEFT"]
ParenRight == [type |-> "PAREN_RIGHT"]

\* tokenize's working state: the position p, the tokens stored so far (token
\* i at tokens[i-1]), the return value ret once the function has returned
\* (done), and namehi, the highest index written in the name buffer func[].
TState(p, toks, ret, namehi, done) ==
    [p |-> p, toks |-> toks, ret |-> ret, namehi |-> namehi, done |-> done]

\* one test of while (*p) and one pass of its body
TokStep(expr, s, last_result) ==
    LET c == At(expr, s.p)
        store(t, q, hi) == TState(q, Append(s.toks, t), s.ret, hi, FALSE)
    IN
    IF c = "" THEN TState(s.p, s.toks, Len(s.toks), s.namehi, TRUE)
    ELSE IF isspace(c) THEN TState(s.p + 1, s.toks, s.ret, s.namehi, FALSE)
    ELSE IF isdigit(c) \/ (c = "." /\ isdigit(At(expr, s.p + 1)))
    THEN store(Number(ScanDouble(expr, s.p)),
               RunEnd(expr, s.p, Digits \cup {"."}), s.namehi)
    ELSE IF isalpha(c)
    THEN LET e == RunEnd(expr, s.p, Lower \cup Upper)
             func == Str(expr, s.p, e)
             hi == IF e - s.p > s.namehi THEN e - s.p ELSE s.namehi
         IN  IF func = "Ans"
             THEN store(Number(last_result), e, hi)
             ELSE store(Function(func), e, hi)
    ELSE IF c = "(" THEN store(ParenLeft, s.p + 1, s.namehi)
    ELSE IF c = ")" THEN store(ParenRight, s.p + 1, s.namehi)
    ELSE IF c \in OpChars THEN store(Operator(c), s.p + 1, s.namehi)
    ELSE TState(s.p, s.toks, -1, s.namehi, TRUE)

\* the while loop, for at most n passes (every pass but the last consumes a
\* character, so Len(expr) + 1 passes end it); the passes are run half by
\* half to keep the evaluation shallow
RECURSIVE TokLoop(_, _, _, _)
TokLoop(expr, s, n, last_result) ==
    IF s.done \/ n = 0 THEN s
    ELSE IF n = 1 THEN TokStep(expr, s, last_result)
    ELSE Bind(TokLoop(expr, s, n \div 2, last_result), LAMBDA h :
              IF h.done THEN h ELSE TokLoop(expr, h, n - n \div 2, last_result))

TokInit == TState(1, <<>>, 0, -1, FALSE)

\* mutant: Ans is given 0.0 instead of last_result
tokenize_stale(expr, last_result) ==
    Bind(TokLoop(expr, TokInit, Len(expr) + 1, Zero), LAMBDA s :
         [toks |-> s.toks, ret |-> s.ret, namehi |-> s.namehi])

tokenize(expr, last_result) ==
    Bind(TokLoop(expr, TokInit, Len(expr) + 1, last_result), LAMBDA s :
         [toks |-> s.toks, ret |-> s.ret, namehi |-> s.namehi])

\* ---------------------------------------------------------------- to_postfix

Max(a, b) == IF a > b THEN a ELSE b

\* to_postfix's working state: the output out[0 .. out_i-1], the operator
\* stack stack[0 .. stack_i-1] (top last), whether it has returned -1, and
\* the highest index stored so far in stack[] and in out[].
PState(out, stack, failed, shi, ohi) ==
    [out |-> out, stack |-> stack, failed |-> failed, shi |-> shi, ohi |-> ohi]

Top(stack) == stack[Len(stack)]
Pop(stack) == SubSeq(stack, 1, Len(stack) - 1)

\* out[out_i++] = stack[--stack_i]
PopToOut(st) ==
    PState(Append(st.out, Top(st.stack)), Pop(st.stack), st.failed,
           st.shi, Max(st.ohi, Len(st.out)))

\* stack[stack_i++] = t
Push(st, t) ==
    PState(st.out, Append(st.stack, t), st.failed,
           Max(st.shi, Len(st.stack)), st.ohi)

\* the condition of the while loop of the OPERATOR case
OperatorYields(stack, t) ==
    /\ Len(stack) > 0
    /\ \/ Top(stack).type = "FUNCTION"
       \/ /\ Top(stack).type = "OPERATOR"
          /\ \/ precedence(Top(stack).op) > precedence(t.op)
             \/ /\ precedence(Top(stack).op) = precedence(t.op)
                /\ ~is_right_associative(t.op)

\* mutant: the while loop pops whatever is on the stack
RECURSIVE PopOperatorsAll(_, _)
PopOperatorsAll(st, t) ==
    IF Len(st.stack) > 0 THEN PopOperatorsAll(PopToOut(st), t) ELSE st

RECURSIVE PopOperators(_, _)
PopOperators(st, t) ==
    IF OperatorYields(st.stack, t) THEN PopOperators(PopToOut(st), t) ELSE st

RECURSIVE PopToParen(_)
PopToParen(st) ==
    IF Len(st.stack) > 0 /\ Top(st.stack).type # "PAREN_LEFT"
    THEN PopToParen(PopToOut(st)) ELSE st

\* mutant: a function token goes to the output when it is read
PostfixStepFuncOut(st, t) ==
    CASE t.type \in {"NUMBER", "FUNCTION"} ->
           PState(Append(st.out, t), st.stack, st.failed, st.shi,
                  Max(st.ohi, Len(st.out)))
      [] t.type = "OPERATOR" -> Bind(PopOperators(st, t), LAMBDA a : Push(a, t))
      [] t.type = "PAREN_LEFT" -> Push(st, t)
      [] t.type = "PAREN_RIGHT" ->
           Bind(PopToParen(st), LAMBDA a :
                IF Len(a.stack) = 0
                THEN PState(a.out, a.stack, TRUE, a.shi, a.ohi)
                ELSE PState(a.out, Pop(a.stack), a.failed, a.shi, a.ohi))

\* mutant: the left parenthesis popped by a right parenthesis goes to the
\* output
PostfixStepKeepsParen(st, t) ==
    CASE t.type = "NUMBER" ->
           PState(Append(st.out, t), st.stack, st.failed, st.shi,
                  Max(st.ohi, Len(st.out)))
      [] t.type = "FUNCTION" -> Push(st, t)
      [] t.type = "OPERATOR" -> Bind(PopOperators(st, t), LAMBDA a : Push(a, t))
      [] t.type = "PAREN_LEFT" -> Push(st, t)
      [] t.type = "PAREN_RIGHT" ->
           Bind(PopToParen(st), LAMBDA a :
                IF Len(a.stack) = 0
                THEN PState(a.out, a.stack, TRUE, a.shi, a.ohi)
                ELSE Bind(PopToOut(a), LAMBDA b :
                          IF Len(b.stack) > 0 /\ Top(b.stack).type = "FUNCTION"
                          THEN PopToOut(b) ELSE b))

\* one iteration of the for loop, for the token t
PostfixStep(st, t) ==
    CASE t.type = "NUMBER" ->
           PState(Append(st.out, t), st.stack, st.failed, st.shi,
                  Max(st.ohi, Len(st.out)))
      [] t.type = "FUNCTION" -> Push(st, t)
      [] t.type = "OPERATOR" -> Bind(PopOperators(st, t), LAMBDA a : Push(a, t))
      [] t.type = "PAREN_LEFT" -> Push(st, t)
      [] t.type = "PAREN_RIGHT" ->
           Bind(PopToParen(st), LAMBDA a :
                IF Len(a.stack) = 0
                THEN PState(a.out, a.stack, TRUE, a.shi, a.ohi)
                ELSE Bind(PState(a.out, Pop(a.stack), a.failed, a.shi, a.ohi),
                          LAMBDA b :
                          IF Len(b.stack) > 0 /\ Top(b.stack).type = "FUNCTION"
                          THEN PopToOut(b) ELSE b))

\* the for loop over the n tokens from token i on, run half by half; it stops
\* at the first return -1
RECURSIVE PostfixLoop(_, _, _, _)
PostfixLoop(in, i, n, st) ==
    IF st.failed \/ n = 0 THEN st
    ELSE IF n = 1 THEN PostfixStep(st, in[i])
    ELSE Bind(PostfixLoop(in, i, n \div 2, st), LAMBDA h :
              IF h.failed THEN h
              ELSE PostfixLoop(in, i + n \div 2, n - n \div 2, h))

\* mutant: the final loop pops a left parenthesis like an operator
RECURSIVE DrainNoCheck(_)
DrainNoCheck(st) ==
    IF st.failed \/ Len(st.stack) = 0 THEN st ELSE DrainNoCheck(PopToOut(st))

\* the final while loop
RECURSIVE Drain(_)
Drain(st) ==
    IF st.failed \/ Len(st.stack) = 0 THEN st
    ELSE IF Top(st.stack).type = "PAREN_LEFT"
    THEN PState(st.out, st.stack, TRUE, st.shi, st.ohi)
    ELSE Drain(PopToOut(st))

PInit == PState(<<>>, <<>>, FALSE, -1, -1)

\* to_postfix(in, n, out): ret is the return value, out the output written
to_postfix(in) ==
    Bind(Drain(PostfixLoop(in, 1, Len(in), PInit)), LAMBDA st :
         [ret |-> IF st.failed THEN -1 ELSE Len(st.out),
          out |-> st.out, shi |-> st.shi, ohi |-> st.ohi])

\* --------------------------------------------------------------- eval_postfix

\* eval_postfix's working state: the value stack, *error, whether it has
\* returned early (a stack-underflow check), the highest index stored in
\* stack[], how many times a failure has been signalled, whether an
\* operator was applied to a zero divisor, and whether an int was computed
\* outside the range of int.
EState(stack, error, returned, hi, fails, divzero, intub) ==
    [stack |-> stack, error |-> error, returned |-> returned, hi |-> hi,
     fails |-> fails, divzero |-> divzero, intub |-> intub]

\* (int)a of a value beyond INT_MAX has no defined result
IntOver(a) == a.k = "lit" /\ a.fits = "over"

\* apply_operator line 204: % converts both operands to int
RemOverflows(op, a, b) == op = "%" /\ (IntOver(a) \/ IntOver(b))

\* apply_function line 215 and factorial line 225: fact converts a whole,
\* non-negative argument to int, and factorial(INT_MAX) increments its int
\* counter i past INT_MAX
FactOverflows(func, a) ==
    /\ func = "fact"
    /\ a.k = "lit" /\ a.whole = "yes" /\ a.fits \in {"over", "max"}

ZeroDivisor(op, b) ==
    \/ op = "/" /\ IsZero(b)
    \/ op = "%" /\ IsQ(b) /\ Trunc(b) = 0

\* mutant: an operator or function that succeeds clears *error
EvalStepClears(st, t) ==
    LET top == Len(st.stack) IN
    CASE t.type = "NUMBER" ->
           EState(Append(st.stack, t.value), st.error, FALSE,
                  Max(st.hi, top), st.fails, st.divzero, st.intub)
      [] t.type = "OPERATOR" ->
           IF top < 2
           THEN EState(st.stack, 1, TRUE, st.hi, st.fails + 1, st.divzero,
                       st.intub)
           ELSE Bind(st.stack[top], LAMBDA b :
                Bind(apply_operator(t.op, st.stack[top - 1], b, 0), LAMBDA r :
                     EState(Append(SubSeq(st.stack, 1, top - 2), r.v), r.error,
                            FALSE, Max(st.hi, top - 2), st.fails + r.error,
                            st.divzero \/ ZeroDivisor(t.op, b),
                            st.intub
                              \/ RemOverflows(t.op, st.stack[top - 1], b))))
      [] t.type = "FUNCTION" ->
           IF top < 1
           THEN EState(st.stack, 1, TRUE, st.hi, st.fails + 1, st.divzero,
                       st.intub)
           ELSE Bind(apply_function(t.func, st.stack[top], 0), LAMBDA r :
                     EState(Append(SubSeq(st.stack, 1, top - 1), r.v), r.error,
                            FALSE, Max(st.hi, top - 1), st.fails + r.error,
                            st.divzero,
                            st.intub \/ FactOverflows(t.func, st.stack[top])))
      [] OTHER -> st

\* one iteration of the for loop, for the token t; r is the operation entered
\* with *error = 0: *error is set by a failure and never cleared
EvalStep(st, t) ==
    LET top == Len(st.stack) IN
    CASE t.type = "NUMBER" ->
           EState(Append(st.stack, t.value), st.error, FALSE,
                  Max(st.hi, top), st.fails, st.divzero, st.intub)
      [] t.type = "OPERATOR" ->
           IF top < 2
           THEN EState(st.stack, 1, TRUE, st.hi, st.fails + 1, st.divzero,
                       st.intub)
           ELSE Bind(st.stack[top], LAMBDA b :
                Bind(apply_operator(t.op, st.stack[top - 1], b, 0), LAMBDA r :
                     EState(Append(SubSeq(st.stack, 1, top - 2), r.v),
                            Max(st.error, r.error), FALSE, Max(st.hi, top - 2),
                            st.fails + r.error,
                            st.divzero \/ ZeroDivisor(t.op, b),
                            st.intub
                              \/ RemOverflows(t.op, st.stack[top - 1], b))))
      [] t.type = "FUNCTION" ->
           IF top < 1
           THEN EState(st.stack, 1, TRUE, st.hi, st.fails + 1, st.divzero,
                       st.intub)
           ELSE Bind(apply_function(t.func, st.stack[top], 0), LAMBDA r :
                     EState(Append(SubSeq(st.stack, 1, top - 1), r.v),
                            Max(st.error, r.error), FALSE, Max(st.hi, top - 1),
                            st.fails + r.error, st.divzero,
                            st.intub \/ FactOverflows(t.func, st.stack[top])))
      [] OTHER -> st

\* the for loop over the n tokens from token i on, run half by half; it stops
\* at the first return
RECURSIVE EvalLoop(_, _, _, _)
EvalLoop(tokens, i, n, st) ==
    IF st.returned \/ n = 0 THEN st
    ELSE IF n = 1 THEN EvalStep(st, tokens[i])
    ELSE Bind(EvalLoop(tokens, i, n \div 2, st), LAMBDA h :
              IF h.returned THEN h
              ELSE EvalLoop(tokens, i + n \div 2, n - n \div 2, h))

\* mutant: the number of values left on the stack is not checked
eval_postfix_anydepth(tokens, error) ==
    Bind(EvalLoop(tokens, 1, Len(tokens),
                  EState(<<>>, error, FALSE, -1, 0, FALSE, FALSE)),
         LAMBDA st :
         [v |-> IF st.returned \/ st.stack = <<>> THEN Zero ELSE st.stack[1],
          error |-> st.error, fails |-> st.fails, underflow |-> st.returned,
          depth |-> Len(st.stack), hi |-> st.hi, divzero |-> st.divzero,
          intub |-> st.intub])

\* eval_postfix(tokens, n, error): v is the value returned, error is *error
\* afterwards, depth the final value of top
eval_postfix(tokens, error) ==
    Bind(EvalLoop(tokens, 1, Len(tokens),
                  EState(<<>>, error, FALSE, -1, 0, FALSE, FALSE)),
         LAMBDA st :
         LET bad == ~st.returned /\ Len(st.stack) # 1
         IN  [v |-> IF st.returned \/ bad THEN Zero ELSE st.stack[1],
              error |-> IF bad THEN 1 ELSE st.error,
              fails |-> IF bad THEN st.fails + 1 ELSE st.fails,
              underflow |-> st.returned, depth |-> Len(st.stack),
              hi |-> st.hi, divzero |-> st.divzero, intub |-> st.intub])

\* --------------------------------------------------------- evaluate_expression

\* what one call did: the results t, c, e of the stages it ran (ran), the
\* value it returns (v), *error afterwards and the failures signalled
CallRecord(t, ran, c, e, v, err, fails) ==
    [toks |-> t.toks, ntokens |-> t.ret, tokhi |-> Len(t.toks) - 1,
     namehi |-> t.namehi, ran |-> ran, npost |-> c.ret, out |-> c.out,
     shi |-> c.shi, ohi |-> c.ohi, vhi |-> e.hi, underflow |-> e.underflow,
     depth |-> e.depth, divzero |-> e.divzero, intub |-> e.intub,
     fails |-> fails, v |-> v, error |-> err]

\* One call evaluate_expression(expr, last_result, error) entered with
\* *error = error, for an expression that stays inside tokens[] and func[]:
\* the stages it runs (ran), what each returns and stores, the value it
\* returns (v) and *error afterwards.
Call(expr, last_result, error) ==
    LET none == [ret |-> 0, out |-> <<>>, shi |-> -1, ohi |-> -1]
        idle == [v |-> Zero, error |-> error, fails |-> 0, underflow |-> FALSE,
                 depth |-> 0, hi |-> -1, divzero |-> FALSE, intub |-> FALSE]
    IN  Bind(tokenize(expr, last_result), LAMBDA t :
        IF t.ret < 0 THEN CallRecord(t, {"tokenize"}, none, idle, Zero, 1, 1)
        ELSE Bind(to_postfix(t.toks), LAMBDA c :
        IF c.ret < 0
        THEN CallRecord(t, {"tokenize", "to_postfix"}, c, idle, Zero, 1, 1)
        ELSE Bind(eval_postfix(c.out, error), LAMBDA e :
             CallRecord(t, {"tokenize", "to_postfix", "eval_postfix"}, c, e,
                        e.v, e.error, e.fails))))

\* the value returned and *error afterwards, for a call entered with *error = 0
evaluate_expression(expr, last_result) ==
    LET r == Call(expr, last_result, 0) IN Ret(r.v, r.error)

\* ---------------------------------------------------------------- the state

VARIABLES
    input,        \* main's input[] after fgets, or the expr of the call
    last_result,  \* main's last_result
    result,       \* the value evaluate_expression returned
    error,        \* main's error, which evaluate_expression writes through
    pc,           \* where the program is
    tokens,       \* evaluate_expression's tokens[], as far as stored
    ntokens,      \* tokenize's return value
    postfix,      \* evaluate_expression's postfix[], as far as stored
    npost,        \* to_postfix's return value, 0 while it has not run
    call,         \* what the last call of evaluate_expression did
    hist,         \* the calls so far: <<error, result, expr, last_result>>
    ub,           \* the program has left defined behaviour
    students,     \* the student-record manager's students[], as far as filled
    studentCount, \* its studentCount
    students_dat, \* the records of its file students.dat
    message       \* what its last operation printed

calc == <<input, last_result, result, error, pc, tokens, ntokens, postfix,
          npost, call, hist, ub>>
recs == <<students, studentCount, students_dat, message>>
vars == <<input, last_result, result, error, pc, tokens, ntokens, postfix,
          npost, call, hist, ub, students, studentCount, students_dat,
          message>>

\* student_records.c line 41-42, and a students.dat that holds no record
StudentsInit ==
    /\ students = <<>>
    /\ studentCount = 0
    /\ students_dat = <<>>
    /\ message = ""

CallInit ==
    [ran |-> {}, tokhi |-> -1, namehi |-> -1, shi |-> -1, ohi |-> -1,
     vhi |-> -1, underflow |-> FALSE, depth |-> 0, fails |-> 0,
     divzero |-> FALSE, intub |-> FALSE]

\* What a build may do once tokens[] or func[] has been written outside its
\* bounds, or an int computed outside its range: return anything, or crash.
UBOutcomes == {<<e, v, p>> : e \in {0, 1}, v \in {Zero, One}, p \in {"report", "crash"}}

\* main line 258: result = evaluate_expression(input, last_result, &error)
Evaluate ==
    /\ pc = "call"
    /\ \E r \in {Call(input, last_result, error)} :
       LET over == r.tokhi >= MAX_TOKENS \/ r.namehi >= FUNC_LEN
       IN  /\ tokens' = SubSeq(r.toks, 1, IF Len(r.toks) > MAX_TOKENS
                                         THEN MAX_TOKENS ELSE Len(r.toks))
           /\ ntokens' = r.ntokens
           /\ ub' = (ub \/ over \/ r.intub)
           /\ IF over
              THEN /\ postfix' = <<>>
                   /\ npost' = 0
                   /\ call' = [CallInit EXCEPT !.ran = {"tokenize"},
                                               !.tokhi = r.tokhi,
                                               !.namehi = r.namehi]
              ELSE /\ postfix' = r.out
                   /\ npost' = r.npost
                   /\ call' = [ran |-> r.ran, tokhi |-> r.tokhi,
                               namehi |-> r.namehi, shi |-> r.shi, ohi |-> r.ohi,
                               vhi |-> r.vhi, underflow |-> r.underflow,
                               depth |-> r.depth, fails |-> r.fails,
                               divzero |-> r.divzero, intub |-> r.intub]
           /\ IF over \/ r.intub
              THEN \E o \in UBOutcomes :
                      /\ result' = o[2]
                      /\ error' = o[1]
                      /\ hist' = Append(hist, <<o[1], o[2], input, last_result>>)
                      /\ pc' = o[3]
              ELSE /\ result' = r.v
                   /\ error' = r.error
                   /\ hist' = Append(hist, <<r.error, r.v, input, last_result>>)
                   /\ pc' = "report"
    /\ UNCHANGED <<input, last_result>>
    /\ UNCHANGED recs

\* ---------------------------------------------------------------- the inputs

\* the longest well-formed expression drawn, in tokens
MaxTok == 7
\* the longest arbitrary sequence of lexemes drawn
MaxLex == 4
\* the number of lines read in one session
MaxEvals == 3

RECURSIVE Cat(_)
Cat(ls) == IF ls = <<>> THEN <<>> ELSE Head(ls) \o Cat(Tail(ls))

\* the expressions the specification of the program gives as examples
Examples ==
    {<<"3", " ", "+", " ", "4", " ", "*", " ", "2">>,
     <<"(", "3", " ", "+", " ", "4", ")", " ", "*", " ", "2">>,
     <<"2", " ", "^", " ", "3", " ", "^", " ", "2">>,
     <<"s", "q", "r", "t", "(", "1", "6", ")", " ", "+", " ", "1">>,
     <<"A", "n", "s", " ", "+", " ", "1">>,
     <<"5", " ", "/", " ", "0">>,
     <<"(", "3", " ", "+", " ", "4">>,
     <<"3", " ", "+", " ", "4", ")">>,
     <<"5", " ", "%", " ", "0", ".", "5">>,
     <<"f", "a", "c", "t", "(", "5", ")">>,
     <<"s", "q", "r", "t", "(", ")">>,
     <<"f", "o", "o", "(", "3", ")">>,
     <<"2", " ", "3">>,
     <<"1", ".", "2", ".", "3">>,
     <<"3", ".">>,
     <<"2", ".", ".">>,
     <<"2", " ", ".", " ", "3">>}

Registry == {<<"s", "q", "r", "t">>, <<"a", "b", "s">>, <<"l", "n">>, <<"l", "o", "g">>, <<"e", "x", "p">>, <<"f", "a", "c", "t">>, <<"s", "i", "n">>, <<"c", "o", "s">>, <<"t", "a", "n">>}

Atoms == {<<"0">>, <<"2">>, <<"A", "n", "s">>}
WFFuncs == {<<"s", "q", "r", "t">>, <<"f", "a", "c", "t">>}

\* the well-formed expressions over Atoms, the six operators, parentheses
\* and WFFuncs, by their number of tokens: WFTable(n)[k].e is the
\* expressions of k tokens and WFTable(n)[k].t the operands among them (an
\* atom, (e) or f(e)), for k in 1..n
WFRow(tab, n) ==
    LET t == (IF n = 1 THEN Atoms ELSE {})
             \cup (IF n >= 3
                   THEN {<<"(">> \o e \o <<")">> : e \in tab[n - 2].e}
                   ELSE {})
             \cup (IF n >= 4
                   THEN {f \o <<"(">> \o e \o <<")">> :
                            f \in WFFuncs, e \in tab[n - 3].e}
                   ELSE {})
    IN  [t |-> t,
         e |-> t \cup UNION {{l \o <<o>> \o r : l \in tab[i].e, o \in OpChars,
                                                r \in tab[n - 1 - i].t} :
                              i \in 1..(n - 2)}]

RECURSIVE WFTable(_)
WFTable(n) ==
    IF n = 0 THEN <<>>
    ELSE Bind(WFTable(n - 1), LAMBDA tab : Append(tab, WFRow(tab, n)))

WellFormedInputs ==
    Bind(WFTable(MaxTok), LAMBDA tab : UNION {tab[n].e : n \in 1..MaxTok})

\* a call of each registered function, before and after each operator
CallAtoms == {<<"0">>, <<"2">>, <<"3">>, <<"1", "6">>}
CallInputs ==
    {f \o <<"(">> \o x \o <<")">> \o <<o>> \o y :
        f \in Registry, x \in CallAtoms, o \in OpChars, y \in CallAtoms}
    \cup {y \o <<o>> \o f \o <<"(">> \o x \o <<")">> :
        f \in Registry, x \in CallAtoms, o \in OpChars, y \in CallAtoms}

\* arbitrary sequences of lexemes, well formed or not
Lexemes == {<<"2">>, <<".", "5">>, <<"+">>, <<"%">>, <<"(">>, <<")">>,
            <<"s", "q", "r", "t", " ">>, <<"#">>}
AnyInputs == {Cat(ls) : ls \in UNION {[1..n -> Lexemes] : n \in 0..MaxLex}}

EvalInputs == Examples \cup WellFormedInputs \cup CallInputs \cup AnyInputs

\* the identifier Ans occurs in expr
HasAns(expr) ==
    \E i \in 1..Len(expr) :
        /\ Str(expr, i, RunEnd(expr, i, Lower \cup Upper)) = "Ans"
        /\ ~isalpha(At(expr, i - 1))

\* the last results a call is given (only an expression with Ans reads it)
LastResults(expr) == IF HasAns(expr) THEN {Whole(10), Q(1, 2)} ELSE {Whole(10)}

\* the lines typed in a session
SessionLines ==
    {<<"q">>,
     <<"Q">>,
     <<"c">>,
     <<"C">>,
     <<>>,
     <<"2">>,
     <<"A", "n", "s", " ", "+", " ", "2">>,
     <<"A", "n", "s", " ", "*", " ", "A", "n", "s">>,
     <<"2", " ", "-", " ", "A", "n", "s">>,
     <<"1", " ", "/", " ", "A", "n", "s">>,
     <<"A", "n", "s", " ", "/", " ", "0">>,
     <<"(", "A", "n", "s">>,
     <<"A", "n", "s", " ", "#">>,
     <<"s", "q", "r", "t", "(", "A", "n", "s", " ", "-", " ", "3", ")">>}

\* unit repeated k times
Rep(unit, k) == [i \in 1..(k * Len(unit)) |-> unit[((i - 1) % Len(unit)) + 1]]

\* every line of fgets(input, sizeof(input), stdin) that repeats one unit:
\* up to INPUT_LEN - 1 characters
RepUnits == {<<"2", "+">>, <<"(">>, <<"2", " ">>, <<"(", "2", ")", "*">>}
LongInputs ==
    UNION {{Rep(u, k) : k \in 1..((INPUT_LEN - 1) \div Len(u))} : u \in RepUnits}

\* ------------------------------------------------ one call, on every input

\* main line 257-258: error = 0, then the call
InitEval ==
    /\ input \in EvalInputs
    /\ last_result \in LastResults(input)
    /\ result = Zero
    /\ error = 0
    /\ pc = "call"
    /\ tokens = <<>>
    /\ ntokens = 0
    /\ postfix = <<>>
    /\ npost = 0
    /\ call = CallInit
    /\ hist = <<>>
    /\ ub = FALSE
    /\ StudentsInit

NextEval == Evaluate

SpecEval == InitEval /\ [][NextEval]_vars

\* ------------------------------------------- one call, on every long line

InitLong ==
    /\ input \in LongInputs
    /\ last_result = Zero
    /\ result = Zero
    /\ error = 0
    /\ pc = "call"
    /\ tokens = <<>>
    /\ ntokens = 0
    /\ postfix = <<>>
    /\ npost = 0
    /\ call = CallInit
    /\ hist = <<>>
    /\ ub = FALSE
    /\ StudentsInit

SpecLong == InitLong /\ [][NextEval]_vars

\* --------------------------------------------- one call, of fact on a number

\* the longest argument of fact drawn from all digit strings
MaxFactDigits == 2

DigitStrings(n) == UNION {[1..k -> Digits] : k \in 1..n}

\* arguments of fact that are whole and not negative: every short digit
\* string, and numbers around INT_MAX
WholeArgs ==
    DigitStrings(MaxFactDigits)
    \cup {<<"1", "2", "3", "4", "5">>,
          <<"2", "1", "4", "7", "4", "8", "3", "6", "4", "6">>,
          <<"2", "1", "4", "7", "4", "8", "3", "6", "4", "7">>,
          <<"2", "1", "4", "7", "4", "8", "3", "6", "4", "8">>,
          <<"3", "0", "0", "0", "0", "0", "0", "0", "0", "0">>,
          <<"0", "0", "0", "0", "0", "0", "0", "0", "0", "0", "5">>,
          <<"1", "2", "3", "4", "5", "6", "7", "8", "9", "0", "1">>}

\* arguments of fact that are negative or not whole
DomainErrorArgs ==
    {<<"0", "-", "1">>, <<"0", "-", "5">>, <<"2", ".", "5">>, <<".", "5">>,
     <<"0", "-", "2", ".", "5">>, <<"1", "/", "2">>,
     <<"3", "0", "0", "0", "0", "0", "0", "0", "0", "0", ".", "5">>}

FactOf(arg) == <<"f", "a", "c", "t", "(">> \o arg \o <<")">>

FactInputs == {FactOf(arg) : arg \in WholeArgs \cup DomainErrorArgs}

InitFact ==
    /\ input \in FactInputs
    /\ last_result = Zero
    /\ result = Zero
    /\ error = 0
    /\ pc = "call"
    /\ tokens = <<>>
    /\ ntokens = 0
    /\ postfix = <<>>
    /\ npost = 0
    /\ call = CallInit
    /\ hist = <<>>
    /\ ub = FALSE
    /\ StudentsInit

SpecFact == InitFact /\ [][NextEval]_vars

\* ------------------------------------------ one call, on every identifier

\* the longest identifier drawn
MaxName == 20

\* an identifier of every length up to MaxName, alone, called, before a
\* number and before an operator
NameInputs ==
    {Rep(<<c>>, k) \o rest :
        c \in {"a", "Z"}, k \in 1..MaxName,
        rest \in {<<>>, <<"(", "2", ")">>, <<" ", "2">>, <<"+", "2">>}}

InitName ==
    /\ input \in NameInputs
    /\ last_result = Zero
    /\ result = Zero
    /\ error = 0
    /\ pc = "call"
    /\ tokens = <<>>
    /\ ntokens = 0
    /\ postfix = <<>>
    /\ npost = 0
    /\ call = CallInit
    /\ hist = <<>>
    /\ ub = FALSE
    /\ StudentsInit

SpecName == InitName /\ [][NextEval]_vars

\* ------------------------------------------------------------------- main

\* main line 235: result = 0.0, last_result = 0.0
Init ==
    /\ input = <<>>
    /\ last_result = Zero
    /\ result = Zero
    /\ error = 0
    /\ pc = "prompt"
    /\ tokens = <<>>
    /\ ntokens = 0
    /\ postfix = <<>>
    /\ npost = 0
    /\ call = CallInit
    /\ hist = <<>>
    /\ ub = FALSE
    /\ StudentsInit

\* mutant: error is not cleared before the call
ReadLineKeepsError ==
    /\ pc = "prompt"
    /\ Len(hist) < MaxEvals
    /\ \E line \in SessionLines :
          /\ input' = line
          /\ IF line \in {<<"q">>, <<"Q">>}
             THEN pc' = "exit"
             ELSE IF line \in {<<"c">>, <<"C">>}
             THEN pc' = "prompt"
             ELSE pc' = "call"
    /\ UNCHANGED <<last_result, result, error, tokens, ntokens, postfix, npost,
                   call, hist, ub>>
    /\ UNCHANGED recs

\* main line 244-258: read a line; q quits, c clears the screen and prompts
\* again, anything else is evaluated with error = 0
ReadLine ==
    /\ pc = "prompt"
    /\ Len(hist) < MaxEvals
    /\ \E line \in SessionLines :
          /\ input' = line
          /\ IF line \in {<<"q">>, <<"Q">>}
             THEN pc' = "exit" /\ UNCHANGED error
             ELSE IF line \in {<<"c">>, <<"C">>}
             THEN pc' = "prompt" /\ UNCHANGED error
             ELSE pc' = "call" /\ error' = 0
    /\ UNCHANGED <<last_result, result, tokens, ntokens, postfix, npost, call,
                   hist, ub>>
    /\ UNCHANGED recs

\* mutant: the result is kept whether or not the call failed
ReportAlways ==
    /\ pc = "report"
    /\ last_result' = result
    /\ pc' = "prompt"
    /\ UNCHANGED <<input, result, error, tokens, ntokens, postfix, npost,
                   call, hist, ub>>
    /\ UNCHANGED recs

\* main line 259-264: report, and keep the result of a successful call
Report ==
    /\ pc = "report"
    /\ last_result' = IF error # 0 THEN last_result ELSE result
    /\ pc' = "prompt"
    /\ UNCHANGED <<input, result, error, tokens, ntokens, postfix, npost,
                   call, hist, ub>>
    /\ UNCHANGED recs

Next == ReadLine \/ Evaluate \/ Report

Spec == Init /\ [][Next]_vars

\* ------------------------------------------------- the student-record manager

MAX_STUDENTS == 100

Student(firstName, lastName, roll) ==
    [firstName |-> firstName, lastName |-> lastName, roll |-> roll]

\* the roll numbers typed at addStudent: one of the form AM12345, and others
\* that are too short, do not start with AM or end with a letter
AddRolls ==
    {<<"A", "M", "0", "0", "0", "0", "1">>,
     <<"A", "M", "1">>,
     <<"X", "M", "0", "0", "0", "0", "1">>,
     <<"A", "M", "0", "0", "0", "0", "A">>}

\* the roll numbers typed at deleteStudent
DeleteRolls ==
    {<<"A", "M", "0", "0", "0", "0", "1">>,
     <<"A", "M", "0", "0", "0", "0", "2">>}

isValidRoll(roll) ==
    /\ Len(roll) = 7
    /\ roll[1] = "A" /\ roll[2] = "M"
    /\ \A i \in 3..7 : isdigit(roll[i])

\* the file holds a record with this roll number
InFile(roll) == \E k \in 1..Len(students_dat) : students_dat[k].roll = roll

\* menu choice 1; every file is opened without error
addStudent ==
    /\ \E roll \in AddRolls :
         LET s == Student("Ann", "Lee", roll) IN
         IF ~isValidRoll(s.roll)
         THEN message' = "invalid" /\ UNCHANGED <<students, studentCount, students_dat>>
         ELSE IF InFile(s.roll)
         THEN message' = "duplicate" /\ UNCHANGED <<students, studentCount, students_dat>>
         ELSE IF studentCount < MAX_STUDENTS
         THEN /\ students' = Append(students, s)
              /\ studentCount' = studentCount + 1
              /\ students_dat' = Append(students_dat, s)
              /\ message' = "added"
         ELSE message' = "full" /\ UNCHANGED <<students, studentCount, students_dat>>
    /\ UNCHANGED calc

\* menu choice 4; every file is opened without error
deleteStudent ==
    /\ \E roll \in DeleteRolls :
         LET other(s) == s.roll # roll IN
         /\ students_dat' = SelectSeq(students_dat, other)
         /\ message' = IF InFile(roll) THEN "deleted" ELSE "notfound"
    /\ UNCHANGED <<students, studentCount>>
    /\ UNCHANGED calc

menu == addStudent \/ deleteStudent

SpecStudents == Init /\ [][menu]_vars

\* ------------------------------------------------ the reference evaluator

\* Direct evaluation of an infix token sequence by recursive descent:
\*   expr    ::= term { (+ | -) term }        left to right
\*   term    ::= power { (* | / | %) power }  left to right
\*   power   ::= primary [ ^ power ]          right to left
\*   primary ::= NUMBER | ( expr ) | FUNCTION ( expr )
\* A parse is [ok, pos, v, err]: whether it succeeded, the next position, the
\* value, and whether an operation was undefined.

RefFail == [ok |-> FALSE, pos |-> 0, v |-> Zero, err |-> 0]
RefOk(pos, v, err) == [ok |-> TRUE, pos |-> pos, v |-> v, err |-> err]

TypeAt(ts, p) == IF p >= 1 /\ p <= Len(ts) THEN ts[p].type ELSE "END"
IsOpAt(ts, p, ops) == TypeAt(ts, p) = "OPERATOR" /\ ts[p].op \in ops

\* the operator table: the value, and 1 when it is undefined
RefApply(op, a, b) ==
    CASE op = "+" -> [v |-> Add(a, b), err |-> 0]
      [] op = "-" -> [v |-> Sub(a, b), err |-> 0]
      [] op = "*" -> [v |-> Mul(a, b), err |-> 0]
      [] op = "/" -> IF IsZero(b) THEN [v |-> Zero, err |-> 1]
                     ELSE [v |-> Div(a, b), err |-> 0]
      [] op = "%" -> IF IsQ(b) /\ Trunc(b) = 0 THEN [v |-> Zero, err |-> 1]
                     ELSE [v |-> Rem(a, b), err |-> 0]
      [] op = "^" -> [v |-> Pow(a, b), err |-> 0]

RefCombine(op, l, r) ==
    LET x == RefApply(op, l.v, r.v)
    IN  RefOk(r.pos, x.v, Max(Max(l.err, r.err), x.err))

RECURSIVE RefExpr(_, _), RefExprRest(_, _), RefTerm(_, _), RefTermRest(_, _),
          RefPower(_, _), RefPrimary(_, _)

RefPrimary(ts, p) ==
    LET inner(q) ==
            LET e == RefExpr(ts, q)
            IN  IF e.ok /\ TypeAt(ts, e.pos) = "PAREN_RIGHT"
                THEN RefOk(e.pos + 1, e.v, e.err) ELSE RefFail
    IN  CASE TypeAt(ts, p) = "NUMBER" -> RefOk(p + 1, ts[p].value, 0)
          [] TypeAt(ts, p) = "PAREN_LEFT" -> inner(p + 1)
          [] TypeAt(ts, p) = "FUNCTION" /\ TypeAt(ts, p + 1) = "PAREN_LEFT" ->
               LET e == inner(p + 2)
                   r == apply_function(ts[p].func, e.v, 0)
               IN  IF e.ok THEN RefOk(e.pos, r.v, Max(e.err, r.error)) ELSE RefFail
          [] OTHER -> RefFail

RefPower(ts, p) ==
    LET b == RefPrimary(ts, p)
    IN  IF b.ok /\ IsOpAt(ts, b.pos, {"^"})
        THEN LET e == RefPower(ts, b.pos + 1)
             IN  IF e.ok THEN RefCombine("^", b, e) ELSE RefFail
        ELSE b

\* ts continues after the parsed term l
RefTermRest(ts, l) ==
    IF l.ok /\ IsOpAt(ts, l.pos, {"*", "/", "%"})
    THEN LET r == RefPower(ts, l.pos + 1)
         IN  IF r.ok THEN RefTermRest(ts, RefCombine(ts[l.pos].op, l, r))
             ELSE RefFail
    ELSE l

RefTerm(ts, p) == RefTermRest(ts, RefPower(ts, p))

RefExprRest(ts, l) ==
    IF l.ok /\ IsOpAt(ts, l.pos, {"+", "-"})
    THEN LET r == RefTerm(ts, l.pos + 1)
         IN  IF r.ok THEN RefExprRest(ts, RefCombine(ts[l.pos].op, l, r))
             ELSE RefFail
    ELSE l

RefExpr(ts, p) == RefExprRest(ts, RefTerm(ts, p))

RefEval(ts) == RefExpr(ts, 1)

\* ts is a syntactically valid infix expression
WellFormed(ts) == LET r == RefEval(ts) IN r.ok /\ r.pos = Len(ts) + 1

HasType(ts, ty) == \E i \in 1..Len(ts) : ts[i].type = ty

\* evaluate_expression has returned
Returned == pc = "report"

\* the call's outcome is that of the reference evaluation r
Agrees(r) == error = r.err /\ (r.err = 0 => result = r.v)

\* ------------------------------------------------------------------ claims

Ex_3p4t2 == <<"3", " ", "+", " ", "4", " ", "*", " ", "2">>
Ex_p3p4t2 == <<"(", "3", " ", "+", " ", "4", ")", " ", "*", " ", "2">>
Ex_2h3h2 == <<"2", " ", "^", " ", "3", " ", "^", " ", "2">>
Ex_sqrt16p1 == <<"s", "q", "r", "t", "(", "1", "6", ")", " ", "+", " ", "1">>
Ex_Ansp1 == <<"A", "n", "s", " ", "+", " ", "1">>
Ex_5d0 == <<"5", " ", "/", " ", "0">>
Ex_open == <<"(", "3", " ", "+", " ", "4">>
Ex_close == <<"3", " ", "+", " ", "4", ")">>
Ex_5m05 == <<"5", " ", "%", " ", "0", ".", "5">>

\* C1: a well-formed infix expression without functions evaluates to what
\* direct evaluation with the standard precedence and parentheses gives (an
\* error exactly when an operation of it is undefined); "3 + 4 * 2" gives 11
\* and "(3 + 4) * 2" gives 14.
C1_Precedence ==
    /\ (Returned /\ ntokens >= 0 /\ WellFormed(tokens)
            /\ ~HasType(tokens, "FUNCTION"))
         => Agrees(RefEval(tokens))
    /\ (Returned /\ input = Ex_3p4t2) => (error = 0 /\ result = Whole(11))
    /\ (Returned /\ input = Ex_p3p4t2) => (error = 0 /\ result = Whole(14))

C1_Witness ==
    /\ Returned /\ input = Ex_p3p4t2 /\ WellFormed(tokens)
    /\ error = 0 /\ result = Whole(14)

\* a chain: NUMBER { OPERATOR NUMBER } with at least two operators, all of
\* the precedence of the first
IsChain(ts) ==
    /\ Len(ts) >= 5 /\ Len(ts) % 2 = 1
    /\ \A i \in 1..Len(ts) :
          IF i % 2 = 1 THEN ts[i].type = "NUMBER"
          ELSE /\ ts[i].type = "OPERATOR"
               /\ precedence(ts[i].op) = precedence(ts[2].op)

\* ((a op b) op c) ... : the operands up to position i, grouped from the left
RECURSIVE ChainLeft(_, _)
ChainLeft(ts, i) ==
    IF i = 1 THEN [v |-> ts[1].value, err |-> 0]
    ELSE LET l == ChainLeft(ts, i - 2)
             x == RefApply(ts[i - 1].op, l.v, ts[i].value)
         IN  [v |-> x.v, err |-> Max(l.err, x.err)]

\* a op (b op (c ...)) : the operands from position i on, grouped from the right
RECURSIVE ChainRight(_, _)
ChainRight(ts, i) ==
    IF i = Len(ts) THEN [v |-> ts[i].value, err |-> 0]
    ELSE LET r == ChainRight(ts, i + 2)
             x == RefApply(ts[i + 1].op, ts[i].value, r.v)
         IN  [v |-> x.v, err |-> Max(r.err, x.err)]

\* C2: a chain of operators of equal precedence groups left to right,
\* except a chain of ^, which groups right to left; "2 ^ 3 ^ 2" is 512.
C2_Associativity ==
    /\ (Returned /\ ntokens >= 0 /\ IsChain(tokens))
         => IF tokens[2].op = "^"
            THEN Agrees(ChainRight(tokens, 1))
            ELSE Agrees(ChainLeft(tokens, Len(tokens)))
    /\ (Returned /\ input = Ex_2h3h2) => (error = 0 /\ result = Whole(512))

C2_Witness ==
    /\ Returned /\ input = Ex_2h3h2 /\ IsChain(tokens)
    /\ result = Whole(512) /\ result # Whole(64)

IsRegistered(name) ==
    name \in {"sqrt", "abs", "ln", "log", "exp", "fact", "sin", "cos", "tan"}

Types(ts) == [i \in 1..Len(ts) |-> ts[i].type]

\* f(x) op y
IsCallFirst(ts) ==
    /\ Types(ts) = <<"FUNCTION", "PAREN_LEFT", "NUMBER", "PAREN_RIGHT",
                     "OPERATOR", "NUMBER">>
    /\ IsRegistered(ts[1].func)

\* y op f(x)
IsCallLast(ts) ==
    /\ Types(ts) = <<"NUMBER", "OPERATOR", "FUNCTION", "PAREN_LEFT", "NUMBER",
                     "PAREN_RIGHT">>
    /\ IsRegistered(ts[3].func)

\* the outcome of l op r, for the outcomes l and r of the operands
Outcome2(op, l, r) ==
    LET x == RefApply(op, l.v, r.v)
    IN  [v |-> x.v, err |-> Max(Max(l.err, r.err), x.err)]

CallOutcome(f, x) ==
    LET r == apply_function(f, x, 0) IN [v |-> r.v, err |-> r.error]

NumOutcome(y) == [v |-> y, err |-> 0]

\* C3: a function call binds tighter than the operator next to it: f(x) op y
\* is (f(x)) op y and y op f(x) is y op (f(x)) for every registered f and
\* every operator, ^ included; the postfix output has f directly after its
\* argument and before the operator; in any well-formed expression a call
\* is evaluated as one operand; "sqrt(16) + 1" is 5.
C3_FunctionBinding ==
    /\ (Returned /\ ntokens >= 0 /\ IsCallFirst(tokens))
         => /\ postfix = <<tokens[3], tokens[1], tokens[6], tokens[5]>>
            /\ Agrees(Outcome2(tokens[5].op,
                               CallOutcome(tokens[1].func, tokens[3].value),
                               NumOutcome(tokens[6].value)))
    /\ (Returned /\ ntokens >= 0 /\ IsCallLast(tokens))
         => /\ postfix = <<tokens[1], tokens[5], tokens[3], tokens[2]>>
            /\ Agrees(Outcome2(tokens[2].op,
                               NumOutcome(tokens[1].value),
                               CallOutcome(tokens[3].func, tokens[5].value)))
    /\ (Returned /\ ntokens >= 0 /\ WellFormed(tokens)
            /\ HasType(tokens, "FUNCTION"))
         => Agrees(RefEval(tokens))
    /\ (Returned /\ input = Ex_sqrt16p1) => (error = 0 /\ result = Whole(5))

C3_Witness ==
    /\ Returned /\ IsCallLast(tokens)
    /\ tokens[2].op = "^" /\ tokens[3].func = "sqrt"
    /\ tokens[1].value = Whole(2) /\ tokens[5].value = Whole(16)
    /\ error = 0 /\ result = Whole(16)

\* some ) has no earlier unmatched (, or some ( is never closed
RECURSIVE ParenScan(_, _, _)
ParenScan(ts, i, open) ==
    IF i > Len(ts) THEN open > 0
    ELSE IF ts[i].type = "PAREN_LEFT" THEN ParenScan(ts, i + 1, open + 1)
    ELSE IF ts[i].type = "PAREN_RIGHT"
    THEN (open = 0 \/ ParenScan(ts, i + 1, open - 1))
    ELSE ParenScan(ts, i + 1, open)

Unbalanced(ts) == ParenScan(ts, 1, 0)

\* C4: on a token sequence with unbalanced parentheses to_postfix returns -1
\* and evaluate_expression reports an error; "(3 + 4" and "3 + 4)" fail.
C4_MismatchedParen ==
    /\ ("to_postfix" \in call.ran /\ Unbalanced(tokens))
         => (npost = -1 /\ Returned /\ error = 1)
    /\ (Returned /\ input \in {Ex_open, Ex_close}) => (npost = -1 /\ error = 1)

C4_Witness ==
    /\ Returned /\ input = Ex_close /\ Unbalanced(tokens)
    /\ "to_postfix" \in call.ran /\ npost = -1 /\ error = 1

\* C5: a call that applies / to a zero divisor, or % to a divisor that
\* truncates to zero, reports an error, whatever follows the operation;
\* "5 / 0" and "5 % 0.5" are errors.
C5_DivisionByZero ==
    /\ (Returned /\ call.divzero) => error = 1
    /\ (Returned /\ input \in {Ex_5d0, Ex_5m05}) => (call.divzero /\ error = 1)

\* the division by zero is followed by further operations
C5_Witness ==
    /\ Returned /\ call.divzero /\ error = 1
    /\ Len(postfix) = 5 /\ postfix[3] = Operator("%") /\ postfix[2].value = Q(1, 2)

\* C6: on the tokens of a syntactically valid expression to_postfix
\* succeeds, and eval_postfix on its output meets no stack-underflow check
\* and ends with a stack depth of 1.
C6_RoundTrip ==
    (Returned /\ ntokens >= 0 /\ WellFormed(tokens))
      => /\ npost >= 0
         /\ "eval_postfix" \in call.ran
         /\ ~call.underflow
         /\ call.depth = 1

C6_Witness ==
    /\ Returned /\ WellFormed(tokens) /\ Len(tokens) = 6
    /\ HasType(tokens, "FUNCTION") /\ HasType(tokens, "OPERATOR")
    /\ npost = 4 /\ call.depth = 1

\* C7: an expression of more than MAX_TOKENS tokens is rejected with an error
\* and not stored beyond the arrays: no token is stored at an index of
\* MAX_TOKENS or more, the stacks are not indexed at MAX_STACK or beyond, and
\* a call given more than MAX_TOKENS tokens returns with the error flag set.
C7_TokenCapacity ==
    /\ call.tokhi < MAX_TOKENS
    /\ call.shi < MAX_STACK /\ call.vhi < MAX_STACK /\ call.ohi < MAX_TOKENS
    /\ pc # "crash"
    /\ (Returned /\ Len(tokenize(input, last_result).toks) > MAX_TOKENS)
         => error = 1

\* the outcome of the most recent successful call of h, 0.0 if there is none
RECURSIVE LastSuccess(_)
LastSuccess(h) ==
    IF h = <<>> THEN Zero
    ELSE IF h[Len(h)][1] = 0 THEN h[Len(h)][2]
    ELSE LastSuccess(SubSeq(h, 1, Len(h) - 1))

\* the calls main has already reported
Reported == IF pc = "report" THEN SubSeq(hist, 1, Len(hist) - 1) ELSE hist

\* C8: at every point of a session last_result is the result of the most
\* recent successful evaluation main has reported, 0.0 if there is none:
\* a failed evaluation leaves it unchanged, a successful one sets it to the
\* result returned, and evaluate_expression itself does not change it.
C8_LastResult == last_result = LastSuccess(Reported)

\* back at the prompt after a success and then a failure
C8_Witness ==
    /\ pc = "prompt" /\ Len(hist) = 2
    /\ hist[1][1] = 0 /\ hist[1][2] # Zero /\ hist[2][1] = 1
    /\ last_result = hist[1][2]

\* a literal whose value is v
LitOf(v) ==
    IF v = Whole(10) THEN <<"1", "0">> ELSE IF v = Q(1, 2) THEN <<"0", ".", "5">>
    ELSE <<"0">>

\* expr with every identifier Ans replaced by lit, set off by blanks
RECURSIVE ReplaceAns(_, _, _)
ReplaceAns(expr, p, lit) ==
    IF p > Len(expr) THEN <<>>
    ELSE IF isalpha(expr[p])
    THEN LET e == RunEnd(expr, p, Lower \cup Upper)
         IN  (IF Str(expr, p, e) = "Ans" THEN <<" ">> \o lit \o <<" ">>
              ELSE SubSeq(expr, p, e - 1))
             \o ReplaceAns(expr, e, lit)
    ELSE <<expr[p]>> \o ReplaceAns(expr, p + 1, lit)

\* C9: every identifier Ans is tokenized as a Number token carrying the
\* last_result of the call, so the tokens and the outcome are those of the
\* expression with Ans replaced by a literal of that value; "Ans + 1" with
\* last_result 10 gives 11.
C9_AnsSubstitution ==
    LET plain == ReplaceAns(input, 1, LitOf(last_result)) IN
    /\ (Returned /\ HasAns(input) /\ ntokens >= 0)
         => tokens = tokenize(plain, Zero).toks
    /\ (Returned /\ HasAns(input))
         => /\ error = evaluate_expression(plain, Zero).error
            /\ result = evaluate_expression(plain, Zero).v
    /\ (Returned /\ input = Ex_Ansp1 /\ last_result = Whole(10))
         => (error = 0 /\ result = Whole(11))

C9_Witness ==
    /\ Returned /\ input = Ex_Ansp1 /\ last_result = Whole(10)
    /\ tokens = <<Number(Whole(10)), Operator("+"), Number(One)>>
    /\ error = 0 /\ result = Whole(11)

\* C10: a failed tokenize keeps to_postfix and eval_postfix from running, a
\* failed to_postfix keeps eval_postfix from running, and a call in which a
\* stage, an operator or a function has signalled a failure returns with
\* the error flag set.
C10_FirstFailure ==
    /\ ("tokenize" \in call.ran /\ ntokens < 0)
         => (Returned /\ call.ran = {"tokenize"})
    /\ ("to_postfix" \in call.ran /\ npost < 0)
         => (Returned /\ "eval_postfix" \notin call.ran)
    /\ (Returned /\ call.fails > 0) => error = 1
    /\ (Returned /\ error = 1) => call.fails > 0

\* an operator failed and other operations followed it
C10_Witness ==
    /\ Returned /\ call.fails = 1 /\ error = 1 /\ "eval_postfix" \in call.ran
    /\ input = <<"2", "/", "0", "+", "2">> /\ result = Whole(2)

\* ------------------------------------------------------------- claims C11 ..

\* the state of tokenize after k passes of its while loop over the input
Pass(k) == TokLoop(input, TokInit, k, last_result)

\* a numeric literal starts at p: a digit, or a '.' immediately before a digit
StartsLiteral(expr, p) ==
    isdigit(At(expr, p)) \/ (At(expr, p) = "." /\ isdigit(At(expr, p + 1)))

\* the end of the maximal run of digits with at most one decimal point at p
LiteralEnd(expr, p) ==
    Bind(RunEnd(expr, p, Digits), LAMBDA ie :
         RunEnd(expr, IF At(expr, ie) = "." THEN ie + 1 ELSE ie, Digits))

\* the value of the digits and the point expr[p] .. expr[e-1]
LiteralValue(expr, p, e) ==
    Bind(RunEnd(expr, p, Digits), LAMBDA ie :
         IF ie >= e THEN Q(NumVal(expr, p, e), 1)
         ELSE Q(NumVal(expr, p, ie) * Pow10(e - ie - 1) + NumVal(expr, ie + 1, e),
                Pow10(e - ie - 1)))

\* C11: the characters consumed for one Number token are exactly the maximal
\* run of digits with at most one decimal point where it starts, and the
\* token's value is the value of those characters (a second '.' ends it).
C11_NumericLiteral ==
    Returned =>
      \A k \in 0..Len(input) :
         Bind(Pass(k), LAMBDA s :
              (~s.done /\ StartsLiteral(input, s.p)
                 /\ LiteralEnd(input, s.p) - s.p <= MaxDigits)
              => Bind(Pass(k + 1), LAMBDA n :
                      /\ n.p = LiteralEnd(input, s.p)
                      /\ n.toks[Len(n.toks)]
                           = Number(LiteralValue(input, s.p, n.p))))

\* a character no token can start with and no literal contains: not white
\* space, not a digit, not a '.' immediately before a digit, not a letter,
\* not a parenthesis and not an operator
InvalidAt(expr, p) ==
    LET c == At(expr, p) IN
    /\ c # "" /\ ~isspace(c) /\ ~isdigit(c) /\ ~isalpha(c)
    /\ ~(c = "." /\ isdigit(At(expr, p + 1)))
    /\ c \notin {"(", ")"} \cup OpChars

\* C12: a character that is not white space, a digit, a '.' immediately
\* before a digit, a letter, a parenthesis or an operator makes tokenize
\* return -1 and the call report an error, wherever it stands; white space
\* never does.
C12_InvalidCharacter ==
    Returned =>
      /\ (\E p \in 1..Len(input) : InvalidAt(input, p))
           => (ntokens = -1 /\ error = 1)
      /\ (\A p \in 1..Len(input) : ~InvalidAt(input, p)) => ntokens >= 0

\* the product i * (i + 1) * ... * n times r, or some number beyond Limit
\* once it is beyond Limit
RECURSIVE ProductFrom(_, _, _)
ProductFrom(i, n, r) ==
    IF i > n \/ r > Limit THEN r ELSE ProductFrom(i + 1, n, r * i)

Product(n) == ProductFrom(2, n, 1)

\* the call of fact on the whole number arg has returned the product
FactIsProduct(arg) ==
    /\ pc = "report"
    /\ error = 0
    /\ IF Len(arg) <= MaxFactDigits /\ Product(NumVal(arg, 1, Len(arg) + 1)) <= Limit
       THEN result = Whole(Product(NumVal(arg, 1, Len(arg) + 1)))
       ELSE ~IsQ(result)

\* C13: fact(a) reports an error when a is negative or not whole; for every
\* other a it reports no error and returns the product 2 * 3 * ... * a, which
\* is 1 for a = 0 and a = 1 and 120 for a = 5.
C13_Factorial ==
    pc # "call" =>
      /\ \A arg \in DomainErrorArgs :
            input = FactOf(arg) => (pc = "report" /\ error = 1)
      /\ \A arg \in WholeArgs : input = FactOf(arg) => FactIsProduct(arg)
      /\ input = FactOf(<<"0">>) => result = One
      /\ input = FactOf(<<"1">>) => result = One
      /\ input = FactOf(<<"5">>) => result = Whole(120)

\* C14: two calls of evaluate_expression made with the same expression and
\* the same last_result end with the same error flag and, when they succeed,
\* return the same value, whatever was evaluated between them.
C14_Idempotence ==
    \A i \in 1..Len(hist) : \A j \in 1..Len(hist) :
       (hist[i][3] = hist[j][3] /\ hist[i][4] = hist[j][4])
       => /\ hist[i][1] = hist[j][1]
          /\ hist[i][1] = 0 => hist[i][2] = hist[j][2]

\* a successful call, a failing call of another expression, and the first
\* call again
C14_Witness ==
    /\ Len(hist) = 3
    /\ hist[1][3] = hist[3][3] /\ hist[1][4] = hist[3][4]
    /\ hist[2][3] # hist[1][3]
    /\ hist[1][1] = 0 /\ hist[2][1] = 1 /\ hist[3][1] = 0

\* the number of values on the value stack after the tokens post[i] .. of a
\* postfix sequence, started with d values; -1 when an operator finds fewer
\* than two values or a function finds none
RECURSIVE DepthWalk(_, _, _)
DepthWalk(post, i, d) ==
    IF i > Len(post) THEN d
    ELSE CASE post[i].type = "NUMBER" -> DepthWalk(post, i + 1, d + 1)
           [] post[i].type = "OPERATOR" ->
                IF d < 2 THEN -1 ELSE DepthWalk(post, i + 1, d - 1)
           [] post[i].type = "FUNCTION" ->
                IF d < 1 THEN -1 ELSE DepthWalk(post, i + 1, d)
           [] OTHER -> DepthWalk(post, i + 1, d)

\* C15: eval_postfix reports no error only if exactly one value is left on
\* the value stack after the last postfix token: zero values (the empty
\* expression, "()") and two or more ("2 3") are errors, and so is an
\* operator that finds fewer than two values or a function that finds none
\* ("sqrt()").
C15_StackDepth ==
    (Returned /\ "eval_postfix" \in call.ran) =>
      Bind(DepthWalk(postfix, 1, 0), LAMBDA d :
           /\ d # 1 => error = 1
           /\ call.underflow <=> d = -1
           /\ ~call.underflow => call.depth = d
           /\ input \in {<<>>, <<"(", ")">>} => (d = 0 /\ error = 1)
           /\ input = <<"2", " ", "3">> => (d = 2 /\ error = 1)
           /\ input = <<"s", "q", "r", "t", "(", ")">> => (d = -1 /\ error = 1))

\* "2 3" has left two values on the stack and is reported as an error
C15_Witness ==
    /\ Returned /\ "eval_postfix" \in call.ran
    /\ input = <<"2", " ", "3">>
    /\ call.depth = 2 /\ ~call.underflow /\ error = 1

\* C16: tokenizing an identifier of any length writes the name buffer func[]
\* only at indices below its size of 10, the terminating NUL included, so
\* that the name with its NUL also fits the 10-byte func field of the token.
C16_NameBuffer == call.namehi < FUNC_LEN

IsParen(t) == t.type \in {"PAREN_LEFT", "PAREN_RIGHT"}
IsNumber(t) == t.type = "NUMBER"
NotParen(t) == ~IsParen(t)

\* how many times the token t occurs in the sequence seq
Occurrences(seq, t) == Cardinality({k \in 1..Len(seq) : seq[k] = t})

\* C17: after to_postfix has consumed i tokens, the output and the operator
\* stack together hold at most i tokens; the output never holds a
\* parenthesis; the numbers are in the output in the order of the input;
\* and on success the output holds exactly the input's tokens that are not
\* parentheses.
C17_PostfixShape ==
    (Returned /\ "to_postfix" \in call.ran) =>
      /\ \A i \in 0..Len(tokens) :
            Bind(PostfixLoop(tokens, 1, i, PInit), LAMBDA st :
                 Len(st.out) + Len(st.stack) <= i)
      /\ \A k \in 1..Len(postfix) : ~IsParen(postfix[k])
      /\ Bind(SelectSeq(tokens, IsNumber), LAMBDA nums :
         Bind(SelectSeq(postfix, IsNumber), LAMBDA outs :
              /\ Len(outs) <= Len(nums)
              /\ outs = SubSeq(nums, 1, Len(outs))
              /\ npost >= 0 => outs = nums))
      /\ npost >= 0 =>
            /\ npost = Len(SelectSeq(tokens, NotParen))
            /\ Len(postfix) = npost
            /\ \A k \in 1..Len(tokens) :
                  NotParen(tokens[k]) =>
                     Occurrences(postfix, tokens[k]) = Occurrences(tokens, tokens[k])

\* "(3 + 4) * 2": seven tokens, two of them parentheses, five in the output
C17_Witness ==
    /\ Returned /\ "to_postfix" \in call.ran
    /\ input = Ex_p3p4t2
    /\ ntokens = 7 /\ npost = 5
    /\ postfix = <<tokens[2], tokens[4], tokens[3], tokens[7], tokens[6]>>

\* C18: after any sequence of addStudent and deleteStudent started with an
\* empty students.dat, studentCount is the number of records in
\* students.dat, and addStudent refuses a valid roll number that is not in
\* the file for lack of room only when the file holds MAX_STUDENTS records.
C18_CountMatchesFile ==
    /\ studentCount = Len(students_dat)
    /\ message = "full" => Len(students_dat) = MAX_STUDENTS

====
